---- MODULE Spec2Model ----
(***************************************************************************)
(* farm-telegram-bot: the webhook worker of src/worker.js.                 *)
(*                                                                         *)
(* The model follows the capacity-aware worker (src/worker.js:546-1317):   *)
(* the KV namespaces BOOKINGS and EVENTS, the operator's                   *)
(* callback_query deliveries (handleAdminBookingAction) cut into one step  *)
(* per awaited store call, and the creation of booking records.            *)
(*                                                                         *)
(* The file holds two workers: the first (src/worker.js:9-536) has the     *)
(* excursion flow with people buttons, contact patterns and a catch-all    *)
(* around the handler; the capacity-aware one (546-1316) adds the event    *)
(* flow. The message deliveries of both are modelled; build says which     *)
(* of the two is deployed.                                                 *)
(*                                                                         *)
(* Texts are sequences of one-character strings, so that parseInt and      *)
(* String() are computed and not assumed.                                  *)
(***************************************************************************)
EXTENDS Integers, Sequences, FiniteSets, TLC

\* ------------------------------------------------------------------ bounds
MaxBookings   == 2   \* createBooking calls in one behaviour
MaxTime       == 1   \* last value of the millisecond clock
MaxInFlight   == 2   \* deliveries the platform runs at the same time

\* --------------------------------------------------------------- constants
\* getEventState: state = { capacity: 40, booked: 0 }
DefaultCapacity == 40

\* setState: newState.expiresAt = Date.now() + 600000
SessionTimeout == 600000

NULL == "null"

\* winterEvents (two of the seven catalog entries)
winterEvents ==
    { [id |-> "ny-03", date |-> "03.01", label |-> "label:ny-03",
       title |-> "title:ny-03"],
      [id |-> "ny-04", date |-> "04.01", label |-> "label:ny-04",
       title |-> "title:ny-04"] }

EventIds == { ev.id : ev \in winterEvents }

\* identities: Telegram user ids of the operator and of a requester
OperatorId  == 101
RequesterId == 202
UserIds     == {OperatorId, RequesterId}

\* env.ADMIN_CHAT_ID: the chat that gets the new booking requests
AdminChatId == OperatorId

\* the answers a requester can type at the people step of the event flow
PeopleTexts ==
    { <<"2", "0">>, <<"4", "0">>, <<"x">> }

\* the answers a requester can type at the people step of the excursion flow
ExPeopleTexts == { <<"2">> }

\* the answers a requester can type at the excursion date step
ExDateTexts == { "03.01" }

\* --------------------------------------------------- parseInt and String()
DigitChars == <<"0", "1", "2", "3", "4", "5", "6", "7", "8", "9">>

IsDigit(c) == \E i \in 1..10 : DigitChars[i] = c

DigitVal(c) == (CHOOSE i \in 1..10 : DigitChars[i] = c) - 1

RECURSIVE SkipSpaces(_)
SkipSpaces(s) ==
    IF s # <<>> /\ Head(s) = " " THEN SkipSpaces(Tail(s)) ELSE s

RECURSIVE DigitRun(_, _, _)
\* the value of the longest prefix of digits of s, NaN when it is empty
DigitRun(s, acc, seen) ==
    IF s # <<>> /\ IsDigit(Head(s))
    THEN DigitRun(Tail(s), 10 * acc + DigitVal(Head(s)), TRUE)
    ELSE [nan |-> ~seen, val |-> acc]

\* parseInt(text, 10): leading spaces, an optional sign, then digits
ParseInt(text) ==
    LET s == SkipSpaces(text) IN
    IF s # <<>> /\ Head(s) = "-"
    THEN LET r == DigitRun(Tail(s), 0, FALSE) IN [nan |-> r.nan, val |-> 0 - r.val]
    ELSE IF s # <<>> /\ Head(s) = "+"
    THEN DigitRun(Tail(s), 0, FALSE)
    ELSE DigitRun(s, 0, FALSE)

\* x || 0 for the result of parseInt: NaN and 0 are falsy
OrZero(r) == IF r.nan \/ r.val = 0 THEN 0 ELSE r.val

RECURSIVE NatChars(_)
NatChars(n) ==
    IF n < 10 THEN <<DigitChars[n + 1]>>
    ELSE NatChars(n \div 10) \o <<DigitChars[(n % 10) + 1]>>

\* String(n) of an integer
NumChars(n) == IF n < 0 THEN <<"-">> \o NatChars(0 - n) ELSE NatChars(n)

\* parseInt(session.people || "0", 10) || 0   (the flow's peopleNum)
PeopleNum(text) == OrZero(ParseInt(IF text = <<>> THEN <<"0">> ELSE text))

\* parseInt(booking.people || "0", 10) || 0   (the stored number, read back)
BookingPeople(n) == OrZero(ParseInt(IF n = 0 THEN <<"0">> ELSE NumChars(n)))

\* ------------------------------------------------------------------- state
VARIABLES
    adminUserId,  \* env.ADMIN_USER_ID, "" when not configured
    BOOKINGS,     \* KV namespace: booking id -> booking record
    EVENTS,       \* KV namespace: event id -> [capacity, booked]
    now,          \* Date.now()
    dl,           \* the deliveries in progress, one record per slot
    out,          \* the Telegram calls of each slot's last delivery
    created,      \* number of createBooking calls so far
    reserved,     \* per created booking: times its seats were added
    build,        \* the deployed worker: 1 = worker.js:9-536, 2 = worker.js:546-1316
    STATE_KV,        \* KV namespace: chat id -> session record
    md,           \* the message delivery in progress
    tap           \* message deliveries that run at the same time, one per slot

vars == <<adminUserId, BOOKINGS, EVENTS, now, dl, out, created, reserved,
          build, STATE_KV, md, tap>>

\* the state of the message deliveries
flowVars == <<build, STATE_KV, md, tap>>

Slots    == 1..MaxInFlight
SeqSlots == {1}

Serials == 1..MaxBookings

\* f with key k set to v (KV put)
Put(f, k, v) == [x \in (DOMAIN f) \cup {k} |-> IF x = k THEN v ELSE f[x]]

EmptyKV == [x \in {} |-> 0]

NoBooking ==
    [id |-> [part |-> "", ts |-> 0], type |-> "none", chatId |-> 0, status |-> "none",
     nyEventId |-> NULL, people |-> 0, serial |-> 0]

NoState == [capacity |-> 0, booked |-> 0]

IdleDelivery ==
    [pc |-> "idle", fromId |-> 0, action |-> "none", data |-> <<>>,
     bookingId |-> [part |-> "", ts |-> 0],
     booking |-> NoBooking, loaded |-> "none", state |-> NoState,
     added |-> FALSE]

\* String(userId)
UserIdString(u) == IF u = OperatorId THEN "101" ELSE "202"

IsAdminUserIdOnceConfigured(userId) == adminUserId # ""

\* isAdminUserId
IsAdminUserId(userId) ==
    IF adminUserId = "" THEN FALSE ELSE UserIdString(userId) = adminUserId

\* a Telegram call
Call(method, to, text, n) == [method |-> method, to |-> to, text |-> text, n |-> n]

AnswerCallbackQuery(text, n) == Call("answerCallbackQuery", 0, text, n)

\* no message delivery in progress. A delivery keeps: its text, what the stores
\* held and what time it was when it began, the awaited calls it completed,
\* the Telegram calls among them, whether an awaited call threw and which, and
\* the response to the webhook
IdleMessage ==
    [pc |-> "idle", chatId |-> 0, text |-> <<>>, at |-> 0,
     before |-> [S |-> EmptyKV, B |-> EmptyKV, E |-> EmptyKV],
     ops |-> <<>>, calls |-> <<>>, failed |-> FALSE, threw |-> "none",
     response |-> "none"]

\* no message delivery in slot d; a running one keeps its text and the awaited
\* calls it has still to make
IdleTap == [pc |-> "idle", text |-> <<>>, ops |-> <<>>]

\* ------------------------------------------------------------ Init
Init ==
    /\ adminUserId \in {"", "101"}
    /\ BOOKINGS = EmptyKV
    /\ EVENTS = EmptyKV
    /\ now = 0
    /\ dl = [d \in Slots |-> IdleDelivery]
    /\ out = [d \in Slots |-> <<>>]
    /\ created = 0
    /\ reserved = [s \in Serials |-> 0]
    /\ build = 2
    /\ STATE_KV = EmptyKV
    /\ md = IdleMessage
    /\ tap = [d \in Slots |-> IdleTap]

Quiescent == \A d \in Slots : dl[d].pc = "idle"

\* ------------------------------------------------------------ time
Tick ==
    /\ now % SessionTimeout < MaxTime
    /\ now' = now + 1
    /\ UNCHANGED <<flowVars, adminUserId, BOOKINGS, EVENTS, dl, out, created, reserved>>

\* ------------------------------------------------------------ bookings
\* generateBookingId: bk-<eventPart>-<today>-<ts>; today is a function of ts
GenerateBookingId(date) ==
    [part |-> IF date = "" THEN "na" ELSE date, ts |-> now]

\* createBooking(data), with data as the contact step of a flow builds it
NewBooking(type, chatId, nyEventId, peopleNum, date) ==
    [id |-> GenerateBookingId(date),
     type |-> type,
     chatId |-> chatId,
     status |-> "new",
     nyEventId |-> nyEventId,
     people |-> peopleNum,
     serial |-> created + 1]

CreateBooking(type, chatId, nyEventId, peopleText, date) ==
    LET booking == NewBooking(type, chatId, nyEventId, PeopleNum(peopleText), date) IN
    /\ created < MaxBookings
    /\ BOOKINGS' = Put(BOOKINGS, booking.id, booking)
    /\ created' = created + 1
    /\ reserved' = [reserved EXCEPT ![created + 1] = 0]
    /\ UNCHANGED <<flowVars, adminUserId, EVENTS, now, dl, out>>

\* the event flow's contact step: type ny_event, date = session.nyEventDate
CreateEventBookingFrom(events, texts) ==
    \E ev \in events, text \in texts :
        CreateBooking("ny_event", RequesterId, ev.id, text, ev.date)

CreateEventBooking == CreateEventBookingFrom(winterEvents, PeopleTexts)

\* the excursion flow's contact step: type excursion, no event id
CreateExcursionBooking ==
    \E date \in ExDateTexts, text \in ExPeopleTexts :
        CreateBooking("excursion", RequesterId, NULL, text, date)

\* ------------------------------------------------------------ operator actions
\* the handler of slot d has made its last call; the response is still to return
Finish(d, rec, calls) ==
    /\ dl' = [dl EXCEPT ![d] = [rec EXCEPT !.pc = "done"]]
    /\ out' = [out EXCEPT ![d] = out[d] \o calls]

\* return new Response("OK"): the delivery is over and leaves nothing in memory
Respond(d) ==
    /\ dl[d].pc = "done"
    /\ dl' = [dl EXCEPT ![d] = IdleDelivery]
    /\ out' = [out EXCEPT ![d] = <<>>]
    /\ UNCHANGED <<flowVars, adminUserId, BOOKINGS, EVENTS, now, created, reserved>>

\* fetch, callback_query branch: the permission check and the dispatch
ReceiveCallback(d, fromId, action, bookingId) ==
    LET rec == [IdleDelivery EXCEPT !.fromId = fromId, !.action = action,
                                    !.bookingId = bookingId] IN
    /\ dl[d].pc = "idle"
    /\ IF ~IsAdminUserId(fromId)
       THEN \* callbackQuery.data is not read before the permission check
            /\ dl' = [dl EXCEPT ![d] = [IdleDelivery EXCEPT !.fromId = fromId,
                                                            !.pc = "done"]]
            /\ out' = [out EXCEPT ![d] = <<AnswerCallbackQuery("denied", 0)>>]
       ELSE /\ dl' = [dl EXCEPT ![d] = [rec EXCEPT !.pc = "getBooking"]]
            /\ out' = [out EXCEPT ![d] = <<>>]
    /\ UNCHANGED <<flowVars, adminUserId, BOOKINGS, EVENTS, now, created, reserved>>

\* getBooking
GetBookingRecord(bookingId) ==
    IF bookingId \in DOMAIN BOOKINGS THEN BOOKINGS[bookingId] ELSE NoBooking

\* booking.type === "ny_event" && booking.nyEventId
IsEventBooking(booking) == booking.type = "ny_event" /\ booking.nyEventId # NULL

IsConfirmedNever(booking) == FALSE

\* booking.status === "confirmed"
IsConfirmed(booking) == booking.status = "confirmed"

\* booking.status === "cancelled"
IsCancelled(booking) == booking.status = "cancelled"

ReservesSeatsAnyAction(action, booking) == IsEventBooking(booking)

\* the capacity block is entered by a confirm of an event booking only
ReservesSeats(action, booking) == action = "confirm" /\ IsEventBooking(booking)

ConfirmWritesBookingFirst == <<"saveBooking", "evSave">>

\* confirm of an event booking: saveEventState, then saveBooking
ConfirmWrites == <<"evSave", "saveBooking">>

\* the store writes of a decision, in the order the handler awaits them
Writes(action, booking) ==
    IF ReservesSeats(action, booking) THEN ConfirmWrites ELSE <<"saveBooking">>

\* where the handler goes after the write w
AfterWrite(rec, w) ==
    LET ws == Writes(rec.action, rec.booking)
        i  == CHOOSE k \in 1..Len(ws) : ws[k] = w IN
    IF i < Len(ws) THEN ws[i + 1] ELSE "notify"

\* handleAdminBookingAction: getBooking and the status checks
GetBooking(d) ==
    LET booking == GetBookingRecord(dl[d].bookingId)
        rec == [dl[d] EXCEPT !.booking = booking, !.loaded = booking.status] IN
    /\ dl[d].pc = "getBooking"
    /\ IF booking = NoBooking
       THEN Finish(d, dl[d], <<AnswerCallbackQuery("not_found", 0)>>)
       ELSE IF dl[d].action = "confirm" /\ IsConfirmed(booking)
       THEN Finish(d, rec, <<AnswerCallbackQuery("already_confirmed", 0)>>)
       ELSE IF dl[d].action = "cancel" /\ IsCancelled(booking)
       THEN Finish(d, rec, <<AnswerCallbackQuery("already_cancelled", 0)>>)
       ELSE /\ dl' = [dl EXCEPT ![d] =
                  [rec EXCEPT !.pc = IF ReservesSeats(dl[d].action, booking)
                                     THEN "evGet"
                                     ELSE Head(Writes(dl[d].action, booking))]]
            /\ UNCHANGED out
    /\ UNCHANGED <<flowVars, adminUserId, BOOKINGS, EVENTS, now, created, reserved>>

NotEnoughSeatsIgnoringParty(state, people) == state.booked > state.capacity

NotEnoughSeatsAtExactFit(state, people) == state.booked + people >= state.capacity

\* state.booked + people > state.capacity
NotEnoughSeats(state, people) == state.booked + people > state.capacity

\* free < 0 ? 0 : free
FreeSeats(state) ==
    LET free == state.capacity - state.booked IN IF free < 0 THEN 0 ELSE free

BadPeopleOnlyNegative(people) == people < 0

\* people <= 0
BadPeople(people) == people <= 0

\* handleAdminBookingAction: the guest count and capacity checks on the counter
\* that getEventState returned, and state.booked += people
CheckSeats(d, state) ==
    LET people == BookingPeople(dl[d].booking.people) IN
    IF BadPeople(people)
    THEN Finish(d, [dl[d] EXCEPT !.state = state],
                <<AnswerCallbackQuery("bad_people", 0)>>)
    ELSE IF NotEnoughSeats(state, people)
    THEN Finish(d, [dl[d] EXCEPT !.state = state],
                <<AnswerCallbackQuery("no_seats", FreeSeats(state))>>)
    ELSE /\ dl' = [dl EXCEPT ![d].state = [state EXCEPT !.booked = @ + people],
                             ![d].pc = Head(Writes(dl[d].action, dl[d].booking))]
         /\ UNCHANGED out

EvGetForgetting(d) ==
    /\ dl[d].pc = "evGet"
    /\ CheckSeats(d, [capacity |-> DefaultCapacity, booked |-> 0])
    /\ UNCHANGED <<flowVars, adminUserId, BOOKINGS, EVENTS, now, created, reserved>>

\* getEventState: env.EVENTS.get(key)
EvGet(d) ==
    LET key == dl[d].booking.nyEventId IN
    /\ dl[d].pc = "evGet"
    /\ IF key \in DOMAIN EVENTS
       THEN CheckSeats(d, EVENTS[key])
       ELSE /\ dl' = [dl EXCEPT ![d].pc = "evCreate"]
            /\ UNCHANGED out
    /\ UNCHANGED <<flowVars, adminUserId, BOOKINGS, EVENTS, now, created, reserved>>

\* getEventState: the counter did not exist, it is created and returned
EvCreate(d) ==
    LET key == dl[d].booking.nyEventId
        state == [capacity |-> DefaultCapacity, booked |-> 0] IN
    /\ dl[d].pc = "evCreate"
    /\ EVENTS' = Put(EVENTS, key, state)
    /\ CheckSeats(d, state)
    /\ UNCHANGED <<flowVars, adminUserId, BOOKINGS, now, created, reserved>>

CounterToSaveOnTopOfStored(d) ==
    LET key == dl[d].booking.nyEventId IN
    [EVENTS[key] EXCEPT !.booked = @ + BookingPeople(dl[d].booking.people)]

\* the state object that saveEventState is given: the counter as this delivery
\* read it, plus its party
CounterToSave(d) == dl[d].state

\* saveEventState(key, state)
EvSave(d) ==
    LET key == dl[d].booking.nyEventId IN
    /\ dl[d].pc = "evSave"
    /\ EVENTS' = Put(EVENTS, key, CounterToSave(d))
    /\ reserved' = [reserved EXCEPT ![dl[d].booking.serial] = @ + 1]
    /\ dl' = [dl EXCEPT ![d].pc = AfterWrite(dl[d], "evSave"), ![d].added = TRUE]
    /\ UNCHANGED <<flowVars, adminUserId, BOOKINGS, now, out, created>>

\* the status that the action gives the booking
Decision(action) == IF action = "confirm" THEN "confirmed" ELSE "cancelled"

\* booking.status = "confirmed" | "cancelled"; saveBooking(booking)
SaveBooking(d) ==
    LET booking == [dl[d].booking EXCEPT !.status = Decision(dl[d].action)] IN
    /\ dl[d].pc = "saveBooking"
    /\ BOOKINGS' = Put(BOOKINGS, booking.id, booking)
    /\ dl' = [dl EXCEPT ![d].booking = booking,
                        ![d].pc = AfterWrite(dl[d], "saveBooking")]
    /\ UNCHANGED <<flowVars, adminUserId, EVENTS, now, out, created, reserved>>

\* the outbound calls after the writes: edit the operator's message (when the
\* callback carries it: chatId && messageId), notify the requester, acknowledge
DecisionCalls(rec, hasMsg) ==
    LET status == Decision(rec.action) IN
    (IF hasMsg THEN <<Call("editMessageText", 0, status, 0)>> ELSE <<>>)
    \o (IF rec.booking.chatId # 0
        THEN <<Call("sendMessage", rec.booking.chatId, status, 0)>> ELSE <<>>)
    \o <<AnswerCallbackQuery(status, 0)>>

\* editMessageText, sendMessage, answerCallbackQuery
Notify(d) ==
    /\ dl[d].pc = "notify"
    /\ \E hasMsg \in BOOLEAN : Finish(d, dl[d], DecisionCalls(dl[d], hasMsg))
    /\ UNCHANGED <<flowVars, adminUserId, BOOKINGS, EVENTS, now, created, reserved>>

\* the delivery stops at an awaited call: the worker is evicted or the call throws
Crash(d) ==
    /\ dl[d].pc \notin {"idle", "done"}
    /\ dl' = [dl EXCEPT ![d] = IdleDelivery]
    /\ out' = [out EXCEPT ![d] = <<>>]
    /\ UNCHANGED <<flowVars, adminUserId, BOOKINGS, EVENTS, now, created, reserved>>

\* a callback names a stored booking or one that was never stored
MissingId == [part |-> "na", ts |-> MaxTime + 1]

\* slot d is the first free slot
FirstFree(d) == dl[d].pc = "idle" /\ \A e \in Slots : e < d => dl[e].pc # "idle"

CallbackActions == {"confirm", "cancel"}

CallbackOf(d, actions) ==
    \E fromId \in UserIds, action \in actions,
       bookingId \in (DOMAIN BOOKINGS) \cup {MissingId} :
        /\ FirstFree(d)
        /\ ReceiveCallback(d, fromId, action, bookingId)

Callback(d) == CallbackOf(d, CallbackActions)

\* ------------------------------------------------------------ message texts
\* A message text is a sequence of tokens: one character per token where the
\* worker looks into the text (parseInt, the contact patterns), one token for
\* a whole label where the worker compares the text as a whole.

\* the reply-keyboard buttons and commands
ResetText     == <<"btn:reset">>        \* worker.js:332, 1017
MainMenuText  == <<"btn:main-menu">>    \* worker.js:339, 1044
ExEntryText   == <<"btn:book-excursion">>  \* worker.js:401, 1231
NyEntryText   == <<"btn:ny-events">>    \* worker.js:1132
SummaryText   == <<"btn:events-summary">>  \* worker.js:1007
EventsCommand == <<"/events">>          \* worker.js:1001
InfoTexts ==
    { <<"btn:excursions">>, <<"btn:schedule">>, <<"btn:how-to-get">>,
      <<"btn:products">> }

\* "/start" and "/start <param>"
StartText(param) ==
    IF param = "" THEN <<"/start">> ELSE <<"/start", " ", param>>

\* text.startsWith("/start")
StartsWithStart(text) == text # <<>> /\ Head(text) = "/start"

\* text.split(" ")[1]
StartParam(text) ==
    IF Len(text) >= 3 /\ text[2] = " " THEN text[3] ELSE ""

\* param.startsWith("ny-")
StartsWithNy(param) == param \in {"ny-menu", "ny-03", "ny-04", "ny-99"}

\* winterEvents.find(e => e.id === param)
EventById(id) == { ev \in winterEvents : ev.id = id }

\* winterEvents.find(ev => ev.label === text)
EventByLabel(text) == { ev \in winterEvents : <<ev.label>> = text }

\* the labels of the people buttons of the excursion flow
SixToTen   == <<"6", "ndash", "1", "0">>
MoreThan11 == <<"b", "o", "l", "e", "e", " ", "1", "1">>

\* allowed = new Set(["1", "2", "3", "4", "5", "6", "6-10" (en dash), "bolee 11"])
ExPeopleAllowed ==
    { <<"1">>, <<"2">>, <<"3">>, <<"4">>, <<"5">>, <<"6">>, SixToTen, MoreThan11 }

\* the stored form of an allowed label
ExPeopleStored(text) ==
    IF text = SixToTen THEN <<"6", "-", "1", "0">>
    ELSE IF text = MoreThan11 THEN <<"1", "1", "+">>
    ELSE text

\* ------------------------------------------------------------ contact patterns
Letters ==
    { "a", "b", "c", "d", "e", "f", "g", "h", "i", "j", "k", "l", "m",
      "n", "o", "p", "q", "r", "s", "t", "u", "v", "w", "x", "y", "z",
      "A", "B", "C", "D", "E", "F", "G", "H", "I", "J", "K", "L", "M",
      "N", "O", "P", "Q", "R", "S", "T", "U", "V", "W", "X", "Y", "Z" }

\* \s: the space, and tokens for the tab and the line feed
Whitespace == { " ", "tab", "lf" }

\* [a-zA-Z0-9_]
IsWordChar(c) == c \in Letters \/ IsDigit(c) \/ c = "_"

\* [0-9+\s()\-]
IsPhoneChar(c) == IsDigit(c) \/ c \in Whitespace \/ c \in {"+", "(", ")", "-"}

RECURSIVE TrimStart(_)
TrimStart(s) ==
    IF s # <<>> /\ Head(s) \in Whitespace THEN TrimStart(Tail(s)) ELSE s

RECURSIVE TrimEnd(_)
TrimEnd(s) ==
    IF s # <<>> /\ s[Len(s)] \in Whitespace
    THEN TrimEnd(SubSeq(s, 1, Len(s) - 1)) ELSE s

\* (text || "").trim()
Trim(s) == TrimEnd(TrimStart(s))

\* /^@[a-zA-Z0-9_]{4,32}$/.test(contact)
IsValidTelegram(contact) ==
    /\ contact # <<>>
    /\ Head(contact) = "@"
    /\ Len(contact) - 1 >= 4
    /\ Len(contact) - 1 <= 32
    /\ \A i \in 2..Len(contact) : IsWordChar(contact[i])

\* /^[0-9+\s()\-]+$/.test(contact)
IsPhoneLike(contact) ==
    /\ contact # <<>>
    /\ \A i \in 1..Len(contact) : IsPhoneChar(contact[i])

\* contact.replace(/\D/g, "")
DigitsOnly(contact) == SelectSeq(contact, IsDigit)

\* isPhoneLike && digitsOnly.length >= 10 && digitsOnly.length <= 15
IsValidPhone(contact) ==
    /\ IsPhoneLike(contact)
    /\ Len(DigitsOnly(contact)) >= 10
    /\ Len(DigitsOnly(contact)) <= 15

\* the excursion contact step of worker.js:460-481 takes the contact
ContactAccepted(contact) == IsValidTelegram(contact) \/ IsValidPhone(contact)

\* ------------------------------------------------------------ sessions
\* session = {}
EmptySession ==
    [step |-> NULL, name |-> <<>>, date |-> <<>>, time |-> <<>>, people |-> <<>>,
     nyEventId |-> NULL, nyEventTitle |-> NULL, nyEventDate |-> NULL,
     expiresAt |-> 0]

\* env.STATE.get(userKey), parsed; {} when there is none
StoredSession(chatId) ==
    IF chatId \in DOMAIN STATE_KV THEN STATE_KV[chatId] ELSE EmptySession

ExpiredNever(session) == FALSE

\* session.expiresAt && now > session.expiresAt
Expired(session) == session.expiresAt # 0 /\ now > session.expiresAt

\* one awaited call of a handler: a store read or write, or a Telegram call
Op(kind, key, val) == [op |-> kind, key |-> key, val |-> val]

SetStateWithoutExpiry(chatId, newState) ==
    <<Op("statePut", chatId, [newState EXCEPT !.expiresAt = 0])>>

\* setState(newState): newState.expiresAt = Date.now() + 600000; STATE.put
SetState(chatId, newState) ==
    <<Op("statePut", chatId, [newState EXCEPT !.expiresAt = now + SessionTimeout])>>

ClearStateNot(chatId) == <<>>

\* clearState(): STATE.delete
ClearState(chatId) == <<Op("stateDelete", chatId, 0)>>

\* sendMessage(chatId, text, keyboard)
SendMessage(to, text) == <<Op("send", to, text)>>

\* getEventState(eventId).state as the flow reads it
EventStateOf(eventId) ==
    IF eventId \in DOMAIN EVENTS THEN EVENTS[eventId]
    ELSE [capacity |-> DefaultCapacity, booked |-> 0]

GetEventStateOpsResetting(eventId) ==
    <<Op("eventsGet", eventId, 0),
      Op("eventsPut", eventId, [capacity |-> DefaultCapacity, booked |-> 0])>>

\* getEventState(eventId): EVENTS.get, and EVENTS.put when there is no counter
GetEventStateOps(eventId) ==
    <<Op("eventsGet", eventId, 0)>>
    \o (IF eventId \in DOMAIN EVENTS THEN <<>>
        ELSE <<Op("eventsPut", eventId, EventStateOf(eventId))>>)

IsFullOnlyWhenOver(state) == state.booked > state.capacity

\* state.booked >= state.capacity
IsFull(state) == state.booked >= state.capacity

\* the date answer as the eventPart of a booking id
DateString(text) == IF text = <<>> THEN "" ELSE Head(text)

\* bookingData.data of the two flows
BookingData(name, date, time, people, contact, title) ==
    [name |-> name, date |-> date, time |-> time, people |-> people,
     contact |-> contact, nyEventTitle |-> title]

\* createBooking(bookingData): the record that saveBooking stores
FlowBooking(type, chatId, nyEventId, peopleText, date, data) ==
    NewBooking(type, chatId, nyEventId, PeopleNum(peopleText), date)
        @@ [data |-> data]

CreateBookingOps(booking) == <<Op("bookingPut", booking.id, booking)>>

\* callTelegram("sendMessage", { chat_id: env.ADMIN_CHAT_ID, ... })
NotifyAdmin(text) == <<Op("send", AdminChatId, text)>>

\* startNyMenu
StartNyMenu(chatId) ==
    SetState(chatId, [EmptySession EXCEPT !.step = "ny_choose"])
    \o SendMessage(chatId, "ny_menu")

\* an event was named, by its label at ny_choose or by its id after /start:
\* the counter is read; a full event ends the flow, any other event is written
\* into base and the name is asked
EnterEvent(chatId, ev, base) ==
    GetEventStateOps(ev.id)
    \o (IF IsFull(EventStateOf(ev.id))
        THEN SendMessage(chatId, "sold_out") \o ClearState(chatId)
        ELSE SetState(chatId, [base EXCEPT !.step = "ny_name",
                                           !.nyEventId = ev.id,
                                           !.nyEventTitle = ev.title,
                                           !.nyEventDate = ev.date])
             \o SendMessage(chatId, "chosen"))

StartOrMainMenuIgnoringParam(chatId, text) ==
    ClearState(chatId) \o SendMessage(chatId, "welcome")

\* "/start ..." or the main menu button, capacity-aware worker
StartOrMainMenu(chatId, text) ==
    LET param == StartParam(text) IN
    IF StartsWithStart(text) /\ param = "ny-menu"
    THEN StartNyMenu(chatId)
    ELSE IF StartsWithStart(text) /\ StartsWithNy(param) /\ EventById(param) # {}
    THEN EnterEvent(chatId, CHOOSE ev \in EventById(param) : TRUE, EmptySession)
    ELSE ClearState(chatId) \o SendMessage(chatId, "welcome")

\* session.step === "ny_choose"
NyChoose(chatId, text, session) ==
    IF EventByLabel(text) = {}
    THEN SendMessage(chatId, "choose_from_list")
    ELSE EnterEvent(chatId, CHOOSE ev \in EventByLabel(text) : TRUE, session)

\* session.step === "ny_name"
NyName(chatId, text, session) ==
    SetState(chatId, [session EXCEPT !.name = text, !.step = "ny_people"])
    \o SendMessage(chatId, "ask_people")

\* session.step === "ny_people"
NyPeople(chatId, text, session) ==
    SetState(chatId, [session EXCEPT !.people = text, !.step = "ny_contact"])
    \o SendMessage(chatId, "ask_contact")

\* session.step === "ny_contact"
NyContact(chatId, text, session) ==
    LET data == BookingData(session.name, <<session.nyEventDate>>, <<>>,
                            session.people, text, session.nyEventTitle)
        booking == FlowBooking("ny_event", chatId, session.nyEventId,
                               session.people, session.nyEventDate, data) IN
    CreateBookingOps(booking)
    \o NotifyAdmin("new_event_request")
    \o SendMessage(chatId, "thanks")
    \o ClearState(chatId)

\* the excursion entry button
ExEntry(chatId) ==
    SetState(chatId, [EmptySession EXCEPT !.step = "ex_name"])
    \o SendMessage(chatId, "ask_name")

\* session.step === "ex_name"
ExName(chatId, text, session) ==
    SetState(chatId, [session EXCEPT !.name = text, !.step = "ex_date"])
    \o SendMessage(chatId, "ask_date")

\* session.step === "ex_date"
ExDate(chatId, text, session) ==
    SetState(chatId, [session EXCEPT !.date = text, !.step = "ex_time"])
    \o SendMessage(chatId, "ask_time")

ExTimeSkippingPeople(chatId, text, session) ==
    SetState(chatId, [session EXCEPT !.time = text, !.step = "ex_contact"])
    \o SendMessage(chatId, "ask_contact")

\* session.step === "ex_time"
ExTime(chatId, text, session) ==
    SetState(chatId, [session EXCEPT !.time = text, !.step = "ex_people"])
    \o SendMessage(chatId, "ask_people")

\* session.step === "ex_people", worker with the people buttons
ExPeopleButtons(chatId, text, session) ==
    IF text \notin ExPeopleAllowed
    THEN SendMessage(chatId, "use_people_buttons")
    ELSE SetState(chatId, [session EXCEPT !.people = ExPeopleStored(text),
                                          !.step = "ex_contact"])
         \o SendMessage(chatId, "ask_contact")

\* session.step === "ex_people", capacity-aware worker
ExPeopleFree(chatId, text, session) ==
    SetState(chatId, [session EXCEPT !.people = text, !.step = "ex_contact"])
    \o SendMessage(chatId, "ask_contact")

ExEmitKeepingSession(chatId, contact, session) ==
    LET data == BookingData(session.name, session.date, session.time,
                            session.people, contact, NULL)
        booking == FlowBooking("excursion", chatId, NULL, session.people,
                               DateString(session.date), data) IN
    CreateBookingOps(booking)
    \o NotifyAdmin("new_excursion_request")
    \o SendMessage(chatId, "thanks")

\* createBooking, the operator's notification, the thanks and clearState
ExEmit(chatId, contact, session) ==
    LET data == BookingData(session.name, session.date, session.time,
                            session.people, contact, NULL)
        booking == FlowBooking("excursion", chatId, NULL, session.people,
                               DateString(session.date), data) IN
    CreateBookingOps(booking)
    \o NotifyAdmin("new_excursion_request")
    \o SendMessage(chatId, "thanks")
    \o ClearState(chatId)

\* session.step === "ex_contact", worker with the contact patterns
ExContactChecked(chatId, text, session) ==
    LET contact == Trim(text) IN
    IF ~ContactAccepted(contact)
    THEN SendMessage(chatId, "bad_contact") \o SendMessage(chatId, "ask_contact")
    ELSE ExEmit(chatId, contact, session)

\* session.step === "ex_contact", capacity-aware worker
ExContactFree(chatId, text, session) == ExEmit(chatId, text, session)

\* the message branch of the first worker of the file, after the session read
HandleStepsV1(chatId, fromId, text, session) ==
    IF text = ResetText
    THEN ClearState(chatId) \o SendMessage(chatId, "reset_done")
    ELSE IF StartsWithStart(text) \/ text = MainMenuText
    THEN ClearState(chatId) \o SendMessage(chatId, "welcome")
    ELSE IF text \in InfoTexts THEN SendMessage(chatId, "info")
    ELSE IF text = ExEntryText THEN ExEntry(chatId)
    ELSE IF session.step = "ex_name" THEN ExName(chatId, text, session)
    ELSE IF session.step = "ex_date" THEN ExDate(chatId, text, session)
    ELSE IF session.step = "ex_time" THEN ExTime(chatId, text, session)
    ELSE IF session.step = "ex_people" THEN ExPeopleButtons(chatId, text, session)
    ELSE IF session.step = "ex_contact" THEN ExContactChecked(chatId, text, session)
    ELSE SendMessage(chatId, "fallback")

\* the message branch of the capacity-aware worker, after the session read
HandleStepsV2(chatId, fromId, text, session) ==
    IF text = EventsCommand /\ IsAdminUserId(fromId)
    THEN SendMessage(chatId, "choose_day")
    ELSE IF text = SummaryText
    THEN (IF ~IsAdminUserId(fromId) THEN SendMessage(chatId, "admin_only")
          ELSE SendMessage(chatId, "choose_day"))
    ELSE IF text = ResetText
    THEN ClearState(chatId) \o SendMessage(chatId, "reset_done")
    ELSE IF StartsWithStart(text) \/ text = MainMenuText
    THEN StartOrMainMenu(chatId, text)
    ELSE IF text \in InfoTexts THEN SendMessage(chatId, "info")
    ELSE IF text = NyEntryText THEN StartNyMenu(chatId)
    ELSE IF session.step = "ny_choose" THEN NyChoose(chatId, text, session)
    ELSE IF session.step = "ny_name" THEN NyName(chatId, text, session)
    ELSE IF session.step = "ny_people" THEN NyPeople(chatId, text, session)
    ELSE IF session.step = "ny_contact" THEN NyContact(chatId, text, session)
    ELSE IF text = ExEntryText THEN ExEntry(chatId)
    ELSE IF session.step = "ex_name" THEN ExName(chatId, text, session)
    ELSE IF session.step = "ex_date" THEN ExDate(chatId, text, session)
    ELSE IF session.step = "ex_time" THEN ExTime(chatId, text, session)
    ELSE IF session.step = "ex_people" THEN ExPeopleFree(chatId, text, session)
    ELSE IF session.step = "ex_contact" THEN ExContactFree(chatId, text, session)
    ELSE SendMessage(chatId, "fallback")

\* the session the step handlers see: the stored one unless it has expired
LiveSession(chatId) ==
    IF Expired(StoredSession(chatId)) THEN EmptySession ELSE StoredSession(chatId)

\* fetch, message branch: the awaited calls of one delivery, in order
HandleMessage(chatId, fromId, text) ==
    <<Op("stateGet", chatId, 0)>>
    \o (IF Expired(StoredSession(chatId))
        THEN <<Op("stateDelete", chatId, 0)>> ELSE <<>>)
    \o (IF build = 1
        THEN HandleStepsV1(chatId, fromId, text, LiveSession(chatId))
        ELSE HandleStepsV2(chatId, fromId, text, LiveSession(chatId)))

\* ------------------------------------------------------------ message deliveries
\* f without key k (KV delete)
Remove(f, k) == [x \in (DOMAIN f) \ {k} |-> f[x]]

\* the effect of one awaited call on the stores and on the calls made so far
ApplyOp(st, o) ==
    IF o.op = "statePut" THEN [st EXCEPT !.S = Put(st.S, o.key, o.val)]
    ELSE IF o.op = "stateDelete" THEN [st EXCEPT !.S = Remove(st.S, o.key)]
    ELSE IF o.op = "eventsPut" THEN [st EXCEPT !.E = Put(st.E, o.key, o.val)]
    ELSE IF o.op = "bookingPut"
    THEN [st EXCEPT !.B = Put(st.B, o.key, o.val), !.puts = @ + 1]
    ELSE IF o.op = "send"
    THEN [st EXCEPT !.calls = Append(@, Call("sendMessage", o.key, o.val, 0))]
    ELSE IF o.op = "answer"
    THEN [st EXCEPT !.calls = Append(@, AnswerCallbackQuery(o.val, 0))]
    ELSE st

RECURSIVE ApplyOps(_, _)
ApplyOps(st, ops) ==
    IF Len(ops) = 0 THEN st ELSE ApplyOps(ApplyOp(st, Head(ops)), Tail(ops))

\* what the platform answers the webhook: the handler's Response("OK"), the
\* same from the catch block of the first worker, or the platform's error
\* when the capacity-aware worker lets the exception out of fetch
Response(failed) ==
    IF ~failed THEN "OK" ELSE IF build = 1 THEN "OK" ELSE "error"

\* one message delivery: the handler's awaited calls up to the k-th, which
\* throws (k = 0: none does)
Deliver(chatId, fromId, text, k) ==
    LET ops  == HandleMessage(chatId, fromId, text)
        ran  == IF k = 0 THEN ops ELSE SubSeq(ops, 1, k - 1)
        st   == ApplyOps([S |-> STATE_KV, B |-> BOOKINGS, E |-> EVENTS,
                          calls |-> <<>>, puts |-> 0], ran) IN
    /\ md.pc = "idle"
    /\ k \in 0..Len(ops)
    /\ created + st.puts <= MaxBookings
    /\ STATE_KV' = st.S
    /\ BOOKINGS' = st.B
    /\ EVENTS' = st.E
    /\ created' = created + st.puts
    /\ reserved' = IF st.puts > 0 THEN [reserved EXCEPT ![created + 1] = 0]
                   ELSE reserved
    /\ md' = [pc |-> "done", chatId |-> chatId, text |-> text, at |-> now,
              before |-> [S |-> STATE_KV, B |-> BOOKINGS, E |-> EVENTS],
              ops |-> [i \in 1..Len(ran) |-> ran[i].op],
              calls |-> st.calls, failed |-> k # 0,
              threw |-> IF k = 0 THEN "none" ELSE ops[k].op,
              response |-> Response(k # 0)]
    /\ UNCHANGED <<build, tap, adminUserId, now, dl, out>>

\* the response goes out and the delivery leaves nothing in memory
RespondMessage ==
    /\ md.pc = "done"
    /\ md' = IdleMessage
    /\ UNCHANGED <<build, STATE_KV, tap, adminUserId, BOOKINGS, EVENTS, now, dl,
                   out, created, reserved>>

\* the requester stays away for the idle timeout, or a millisecond longer
LongWait ==
    /\ now < SessionTimeout
    /\ now' \in {now + SessionTimeout, now + SessionTimeout + 1}
    /\ UNCHANGED <<flowVars, adminUserId, BOOKINGS, EVENTS, dl, out, created,
                   reserved>>

\* ------------------------------------------------------------ requester inputs
NameTexts == { <<"Ann">> }
TimeTexts == { <<"11:30">> }

\* the answers typed at the people step of the excursion flow
ExPeopleAnswers == { <<"2">>, SixToTen, MoreThan11, <<"7">> }

\* the answers typed at the people step of the event flow
NyPeopleAnswers == { <<"2", "0">> }

\* "+7 999 123-45-67", "12345", "@john_doe", "@a"
ContactTexts ==
    { <<"+", "7", " ", "9", "9", "9", " ", "1", "2", "3", "-", "4", "5", "-",
        "6", "7">>,
      <<"1", "2", "3", "4", "5">>,
      <<"@", "j", "o", "h", "n", "_", "d", "o", "e">>,
      <<"@", "a">> }

\* texts that are no button, no command and no answer
OtherTexts == { <<"hello">> }

\* the buttons a requester presses in the middle of a flow
TriggerTexts == { ResetText, MainMenuText }

\* the buttons, commands and texts a requester sends while no flow is open
IdleTexts ==
    { ExEntryText, NyEntryText, SummaryText,
      StartText(""), StartText("ny-menu"), StartText("ny-03"),
      StartText("ny-99"), CHOOSE t \in InfoTexts : TRUE } \cup OtherTexts

\* what the requester answers to the question of the stored step
AnswersAt(step) ==
    IF step = "ex_name" \/ step = "ny_name" THEN NameTexts
    ELSE IF step = "ex_date" THEN { <<d>> : d \in ExDateTexts }
    ELSE IF step = "ex_time" THEN TimeTexts
    ELSE IF step = "ex_people" THEN ExPeopleAnswers
    ELSE IF step = "ny_people" THEN NyPeopleAnswers
    ELSE IF step = "ex_contact" \/ step = "ny_contact" THEN ContactTexts
    ELSE IF step = "ny_choose"
    THEN { <<ev.label>> : ev \in winterEvents } \cup OtherTexts
    ELSE IdleTexts

\* the texts of the requester's next message: an answer to the stored step or
\* a trigger, and after the idle timeout also what is sent with no flow open
MessageTexts ==
    AnswersAt(StoredSession(RequesterId).step) \cup TriggerTexts
        \cup (IF now > StoredSession(RequesterId).expiresAt THEN IdleTexts ELSE {})

\* a message of the requester
Message(failing) ==
    \E text \in MessageTexts :
        \E k \in (IF failing
                  THEN 0..Len(HandleMessage(RequesterId, RequesterId, text))
                  ELSE {0}) :
            /\ Quiescent
            /\ Deliver(RequesterId, RequesterId, text, k)

\* ------------------------------------------------------------ operator queries
\* callback data is the sequence of the parts that data.split(":") gives

\* the catalog in the order of the winterEvents array
CatalogOrder == <<"ny-03", "ny-04">>

\* answerCallbackQuery(cbId, text) as an awaited call
Answer(text) == <<Op("answer", 0, text)>>

RECURSIVE EventStatesFrom(_)
\* the loop of sendEventsSummaryMessage: getEventState for every catalog entry
EventStatesFrom(ids) ==
    IF ids = <<>> THEN <<>>
    ELSE GetEventStateOps(Head(ids)) \o EventStatesFrom(Tail(ids))

\* sendEventsSummaryMessage
SendEventsSummaryMessage(chatId) ==
    EventStatesFrom(CatalogOrder) \o SendMessage(chatId, "summary")

\* sendEventDetailMessage: the counter, BOOKINGS.list, a get per key, the roster
SendEventDetailMessage(chatId, eventId) ==
    IF EventById(eventId) = {}
    THEN SendMessage(chatId, "event_not_found")
    ELSE GetEventStateOps(eventId)
         \o <<Op("bookingsList", 0, 0)>>
         \o [i \in 1..Cardinality(DOMAIN BOOKINGS) |-> Op("bookingGet", 0, 0)]
         \o SendMessage(chatId, "roster")

\* handleEventsSummaryCallback: suffix = data.split(":")[1]
HandleEventsSummaryCallback(chatId, data) ==
    LET suffix == IF Len(data) >= 2 THEN data[2] ELSE "" IN
    IF suffix = "all"
    THEN SendEventsSummaryMessage(chatId) \o Answer("summary_sent")
    ELSE SendEventDetailMessage(chatId, suffix) \o Answer("details_sent")

UnknownCommandAsSummary(chatId) ==
    SendEventsSummaryMessage(chatId) \o Answer("unknown_command")

\* answerCallbackQuery(callbackQuery.id, "unknown command")
UnknownCommand(chatId) == Answer("unknown_command")

\* data.startsWith("events:"), which only the capacity-aware worker looks for
IsEventsData(data) == build = 2 /\ data # <<>> /\ Head(data) = "events"

HandleOtherCallbackOpen(fromId, data) ==
    IF IsEventsData(data) THEN HandleEventsSummaryCallback(fromId, data)
    ELSE UnknownCommand(fromId)

\* fetch, callback_query branch, for data that is no confirm and no cancel: the
\* awaited calls of the delivery, in order
HandleOtherCallback(fromId, data) ==
    IF ~IsAdminUserId(fromId) THEN Answer("denied")
    ELSE IF IsEventsData(data) THEN HandleEventsSummaryCallback(fromId, data)
    ELSE UnknownCommand(fromId)

\* the callback data of the operator's events keyboard, and data that no
\* keyboard of the bot carries
OtherData ==
    { <<"events", "all">>, <<"events", "ny-03">>, <<"events", "ny-04">>,
      <<"events", "ny-99">>, <<"noop", "1">>, <<>> }

\* one delivery of such a callback
OtherCallback(d) ==
    \E fromId \in UserIds, data \in OtherData :
        LET ops == HandleOtherCallback(fromId, data)
            st  == ApplyOps([S |-> STATE_KV, B |-> BOOKINGS, E |-> EVENTS,
                             calls |-> <<>>, puts |-> 0], ops) IN
        /\ FirstFree(d)
        /\ STATE_KV' = st.S
        /\ BOOKINGS' = st.B
        /\ EVENTS' = st.E
        /\ dl' = [dl EXCEPT ![d] = [IdleDelivery EXCEPT !.pc = "done",
                                                        !.fromId = fromId,
                                                        !.action = "other",
                                                        !.data = data]]
        /\ out' = [out EXCEPT ![d] = st.calls]
        /\ UNCHANGED <<build, md, tap, adminUserId, now, created, reserved>>

\* ------------------------------------------------------------ double taps
\* Message deliveries that the platform runs at the same time. A handler is
\* cut at its awaited calls. Between the end of STATE.get and the next awaited
\* call nothing is awaited, so the session, Date.now() and with them the
\* record to store and the session to write are fixed when the read ends; the
\* counters that a later getEventState reads hold the same values for every
\* reader here, as no operator decides on a request meanwhile.

\* STATE.get ends: the handler of slot d has read the session
TapReceive(d, text) ==
    /\ tap[d].pc = "idle"
    /\ tap' = [tap EXCEPT ![d] =
                  [pc |-> "run", text |-> text,
                   ops |-> Tail(HandleMessage(RequesterId, RequesterId, text))]]
    /\ out' = [out EXCEPT ![d] = <<>>]
    /\ UNCHANGED <<build, STATE_KV, md, adminUserId, BOOKINGS, EVENTS, now, dl,
                   created, reserved>>

\* the next awaited call of slot d's handler
TapStep(d) ==
    LET o    == Head(tap[d].ops)
        call == IF o.op = "bookingPut"
                THEN [o EXCEPT !.val = [o.val EXCEPT !.serial = created + 1]]
                ELSE o
        st   == ApplyOp([S |-> STATE_KV, B |-> BOOKINGS, E |-> EVENTS,
                         calls |-> out[d], puts |-> 0], call) IN
    /\ tap[d].pc = "run"
    /\ created + st.puts <= MaxBookings
    /\ STATE_KV' = st.S
    /\ BOOKINGS' = st.B
    /\ EVENTS' = st.E
    /\ out' = [out EXCEPT ![d] = st.calls]
    /\ created' = created + st.puts
    /\ reserved' = IF st.puts > 0 THEN [reserved EXCEPT ![created + 1] = 0]
                   ELSE reserved
    /\ tap' = [tap EXCEPT ![d].ops = Tail(@),
                          ![d].pc = IF Len(tap[d].ops) = 1 THEN "done" ELSE "run"]
    /\ UNCHANGED <<build, md, adminUserId, now, dl>>

\* return new Response("OK")
TapRespond(d) ==
    /\ tap[d].pc = "done"
    /\ tap' = [tap EXCEPT ![d] = IdleTap]
    /\ out' = [out EXCEPT ![d] = <<>>]
    /\ UNCHANGED <<build, STATE_KV, md, adminUserId, BOOKINGS, EVENTS, now, dl,
                   created, reserved>>

\* what the requester taps twice: a contact, or the reset button
TapTexts == { t \in ContactTexts : ContactAccepted(t) } \cup {ResetText}

\* ------------------------------------------------------------ specifications
\* one delivery at a time
Next ==
    \/ Tick
    \/ (Quiescent /\ CreateEventBooking)
    \/ (Quiescent /\ CreateExcursionBooking)
    \/ \E d \in SeqSlots : Quiescent /\ Callback(d)
    \/ \E d \in SeqSlots : GetBooking(d)
    \/ \E d \in SeqSlots : EvGet(d)
    \/ \E d \in SeqSlots : EvCreate(d)
    \/ \E d \in SeqSlots : EvSave(d)
    \/ \E d \in SeqSlots : SaveBooking(d)
    \/ \E d \in SeqSlots : Notify(d)
    \/ \E d \in SeqSlots : Respond(d)

Spec == Init /\ [][Next]_vars

\* the requests that contend for the seats of one event: parties that fit
\* alone and do not all fit together
ContestedEvents == { ev \in winterEvents : ev.id = "ny-03" }
ContestedTexts  == { <<"2", "0">>, <<"4", "0">> }

\* confirm deliveries interleaved at their awaited calls
NextConc ==
    \/ Tick
    \/ CreateEventBookingFrom(ContestedEvents, ContestedTexts)
    \/ \E d \in Slots : CallbackOf(d, {"confirm"})
    \/ \E d \in Slots : GetBooking(d)
    \/ \E d \in Slots : EvGet(d)
    \/ \E d \in Slots : EvCreate(d)
    \/ \E d \in Slots : EvSave(d)
    \/ \E d \in Slots : SaveBooking(d)
    \/ \E d \in Slots : Notify(d)
    \/ \E d \in Slots : Respond(d)

SpecConc == Init /\ [][NextConc]_vars

\* one delivery at a time, which may stop at any awaited call
NextCrash ==
    \/ Tick
    \/ (Quiescent /\ CreateEventBookingFrom(ContestedEvents, PeopleTexts))
    \/ \E d \in SeqSlots : Quiescent /\ Callback(d)
    \/ \E d \in SeqSlots : GetBooking(d)
    \/ \E d \in SeqSlots : EvGet(d)
    \/ \E d \in SeqSlots : EvCreate(d)
    \/ \E d \in SeqSlots : EvSave(d)
    \/ \E d \in SeqSlots : SaveBooking(d)
    \/ \E d \in SeqSlots : Notify(d)
    \/ \E d \in SeqSlots : Respond(d)
    \/ \E d \in SeqSlots : Crash(d)

SpecCrash == Init /\ [][NextCrash]_vars

\* the operator's deliveries, one at a time: decisions on the requests for one
\* event, the events keyboard, and data the bot does not know
InitOperator ==
    /\ adminUserId = "101"
    /\ BOOKINGS = EmptyKV
    /\ EVENTS = EmptyKV
    /\ now = 0
    /\ dl = [d \in Slots |-> IdleDelivery]
    /\ out = [d \in Slots |-> <<>>]
    /\ created = 0
    /\ reserved = [s \in Serials |-> 0]
    /\ build \in {1, 2}
    /\ STATE_KV = EmptyKV
    /\ md = IdleMessage
    /\ tap = [d \in Slots |-> IdleTap]

\* guest counts of the requests the operator decides on: two that parse to a
\* party, one that does not parse, one below zero
OperatorPeopleTexts == PeopleTexts \cup { <<"-", "5">> }

NextOperator ==
    \/ Tick
    \/ (Quiescent /\ build = 2
          /\ CreateEventBookingFrom(ContestedEvents, OperatorPeopleTexts))
    \/ \E d \in SeqSlots : Quiescent /\ build = 2 /\ Callback(d)
    \/ \E d \in SeqSlots : Quiescent /\ OtherCallback(d)
    \/ \E d \in SeqSlots : GetBooking(d)
    \/ \E d \in SeqSlots : EvGet(d)
    \/ \E d \in SeqSlots : EvCreate(d)
    \/ \E d \in SeqSlots : EvSave(d)
    \/ \E d \in SeqSlots : SaveBooking(d)
    \/ \E d \in SeqSlots : Notify(d)
    \/ \E d \in SeqSlots : Respond(d)

SpecOperator == InitOperator /\ [][NextOperator]_vars

\* the sessions that wait for the contact: the excursion flow after name, date,
\* time and people, the event flow after the choice of ny-03, name and people
ExContactSession ==
    [EmptySession EXCEPT !.step = "ex_contact", !.name = <<"Ann">>,
                         !.date = <<"03.01">>, !.time = <<"11:30">>,
                         !.people = <<"2">>, !.expiresAt = SessionTimeout]

NyContactSession ==
    [EmptySession EXCEPT !.step = "ny_contact", !.name = <<"Ann">>,
                         !.people = <<"2", "0">>, !.nyEventId = "ny-03",
                         !.nyEventTitle = "title:ny-03", !.nyEventDate = "03.01",
                         !.expiresAt = SessionTimeout]

\* the requester is at the contact step of a flow and no request is stored
InitTap ==
    /\ adminUserId = "101"
    /\ BOOKINGS = EmptyKV
    /\ now = 0
    /\ dl = [d \in Slots |-> IdleDelivery]
    /\ out = [d \in Slots |-> <<>>]
    /\ created = 0
    /\ reserved = [s \in Serials |-> 0]
    /\ build \in {1, 2}
    /\ md = IdleMessage
    /\ tap = [d \in Slots |-> IdleTap]
    /\ \/ /\ STATE_KV = Put(EmptyKV, RequesterId, ExContactSession)
          /\ EVENTS = EmptyKV
       \/ /\ build = 2
          /\ STATE_KV = Put(EmptyKV, RequesterId, NyContactSession)
          /\ EVENTS = Put(EmptyKV, "ny-03",
                          [capacity |-> DefaultCapacity, booked |-> 0])

\* message deliveries of one requester, interleaved at their awaited calls
NextTap ==
    \/ Tick
    \/ \E d \in Slots, text \in TapTexts : TapReceive(d, text)
    \/ \E d \in Slots : TapStep(d)
    \/ \E d \in Slots : TapRespond(d)

SpecTap == InitTap /\ [][NextTap]_vars

\* an earlier request that the store holds when the requester's first message
\* arrives: an excursion request, or (capacity-aware worker) the confirmed
\* request of 40 that sold out ny-03
EarlierExcursion ==
    [FlowBooking("excursion", OperatorId, NULL, <<"2">>, "03.01",
                 BookingData(<<"Bob">>, <<"03.01">>, <<"15:30">>, <<"2">>,
                             <<"@", "b", "o", "b", "_", "b">>, NULL))
        EXCEPT !.serial = 1]

EarlierEventBooking ==
    [FlowBooking("ny_event", OperatorId, "ny-03", <<"4", "0">>, "03.01",
                 BookingData(<<"Bob">>, <<"03.01">>, <<>>, <<"4", "0">>,
                             <<"@", "b", "o", "b", "_", "b">>, "title:ny-03"))
        EXCEPT !.status = "confirmed", !.serial = 1]

InitFlow ==
    /\ adminUserId = "101"
    /\ now = 0
    /\ dl = [d \in Slots |-> IdleDelivery]
    /\ out = [d \in Slots |-> <<>>]
    /\ build \in {1, 2}
    /\ STATE_KV = EmptyKV
    /\ md = IdleMessage
    /\ tap = [d \in Slots |-> IdleTap]
    /\ created = 1
    /\ \/ /\ BOOKINGS = Put(EmptyKV, EarlierExcursion.id, EarlierExcursion)
          /\ EVENTS = EmptyKV
          /\ reserved = [s \in Serials |-> 0]
       \/ /\ build = 2
          /\ BOOKINGS = Put(EmptyKV, EarlierEventBooking.id, EarlierEventBooking)
          /\ EVENTS = Put(EmptyKV, "ny-03",
                          [capacity |-> DefaultCapacity, booked |-> 40])
          /\ reserved = [s \in Serials |-> IF s = 1 THEN 1 ELSE 0]

\* messages of one requester, one delivery at a time, no call fails
NextFlow ==
    \/ LongWait
    \/ Message(FALSE)
    \/ RespondMessage

SpecFlow == InitFlow /\ [][NextFlow]_vars

\* messages of one requester, one delivery at a time, any awaited call may throw
NextFail ==
    \/ LongWait
    \/ Message(TRUE)
    \/ RespondMessage

SpecFail == InitFlow /\ [][NextFail]_vars

\* the clock runs on: more than the idle timeout passes
Elapse ==
    /\ now <= SessionTimeout + 1
    /\ now' = now + SessionTimeout + 1
    /\ UNCHANGED <<flowVars, adminUserId, BOOKINGS, EVENTS, dl, out, created,
                   reserved>>

\* a message of the requester, who writes no more after two idle timeouts
MessageInTime == now <= SessionTimeout + 1 /\ Message(FALSE)

\* messages of one requester while the clock runs on
NextLive ==
    \/ Elapse
    \/ MessageInTime
    \/ RespondMessage

\* Date.now() grows whatever the requester does
SpecLive == InitFlow /\ [][NextLive]_vars /\ WF_vars(Elapse)

\* what a requester may type at the people step of the event flow, whose field
\* is free text: a party, or a word
NyPeopleTyped == NyPeopleAnswers \cup { <<"x">> }

\* the two buttons of the main keyboard that open a flow; the keyboard of a
\* step does not hide them from a requester who types or taps an older keyboard
EntryButtons == { ExEntryText, NyEntryText }

\* the texts of a requester who may press an entry button at any step
AnyStateTexts ==
    MessageTexts \cup EntryButtons
        \cup (IF StoredSession(RequesterId).step = "ny_people"
              THEN NyPeopleTyped ELSE {})

\* a message of the requester, an entry button included
MessageAnyState ==
    \E text \in AnyStateTexts :
        /\ Quiescent
        /\ Deliver(RequesterId, RequesterId, text, 0)

\* messages of one requester who may press an entry button at any step
NextAnyState ==
    \/ LongWait
    \/ MessageAnyState
    \/ RespondMessage

SpecAnyState == InitFlow /\ [][NextAnyState]_vars

\* a deployment with or without env.ADMIN_USER_ID
InitAuth ==
    /\ adminUserId \in {"", "101"}
    /\ BOOKINGS = EmptyKV
    /\ EVENTS = EmptyKV
    /\ now = 0
    /\ dl = [d \in Slots |-> IdleDelivery]
    /\ out = [d \in Slots |-> <<>>]
    /\ created = 0
    /\ reserved = [s \in Serials |-> 0]
    /\ build \in {1, 2}
    /\ STATE_KV = EmptyKV
    /\ md = IdleMessage
    /\ tap = [d \in Slots |-> IdleTap]

\* the message texts that ask for the operator's events menu
OperatorMenuTexts == { SummaryText, EventsCommand }

\* a message of any user that asks for the operator's menu, or opens the event
\* menu so that the next one finds a session
MenuMessage ==
    \E u \in UserIds, text \in OperatorMenuTexts \cup {NyEntryText} :
        /\ Quiescent
        /\ Deliver(u, u, text, 0)

\* callbacks and menu messages of every user, one delivery at a time
NextAuth ==
    \/ (Quiescent /\ md.pc = "idle" /\ build = 2
          /\ CreateEventBookingFrom(ContestedEvents, ContestedTexts))
    \/ \E d \in SeqSlots : Quiescent /\ md.pc = "idle" /\ build = 2 /\ Callback(d)
    \/ \E d \in SeqSlots : Quiescent /\ md.pc = "idle" /\ OtherCallback(d)
    \/ \E d \in SeqSlots : GetBooking(d)
    \/ \E d \in SeqSlots : EvGet(d)
    \/ \E d \in SeqSlots : EvCreate(d)
    \/ \E d \in SeqSlots : EvSave(d)
    \/ \E d \in SeqSlots : SaveBooking(d)
    \/ \E d \in SeqSlots : Notify(d)
    \/ \E d \in SeqSlots : Respond(d)
    \/ MenuMessage
    \/ RespondMessage

SpecAuth == InitAuth /\ [][NextAuth]_vars

TypeOK ==
    /\ adminUserId \in {"", "101"}
    /\ now % SessionTimeout \in 0..MaxTime
    /\ build \in {1, 2}
    /\ md.pc \in {"idle", "done"}
    /\ \A d \in Slots : tap[d].pc \in {"idle", "run", "done"}
    /\ DOMAIN STATE_KV \subseteq UserIds
    /\ created \in 0..MaxBookings
    /\ \A id \in DOMAIN BOOKINGS : id.ts % SessionTimeout \in 0..MaxTime
    /\ DOMAIN EVENTS \subseteq EventIds
    /\ \A d \in Slots :
        dl[d].pc \in {"idle", "getBooking", "evGet", "evCreate", "evSave",
                      "saveBooking", "notify", "done"}

\* ------------------------------------------------------------ properties
\* booked(E) of the stored counter, 0 while the counter does not exist
Booked(e) == IF e \in DOMAIN EVENTS THEN EVENTS[e].booked ELSE 0

\* slot d takes a step
Steps(d) == dl'[d] # dl[d]

\* the only call of slot d's delivery is this answer to the operator
OnlyAnswer(d, text, n) == out[d] = <<AnswerCallbackQuery(text, n)>>

\* the calls of slot d's delivery that go to a requester
RequesterCalls(d) ==
    { i \in 1..Len(out[d]) : out[d][i].method = "sendMessage" }

\* C1: deliveries processed one at a time: in every reachable state every stored
\* counter has 0 <= booked <= capacity.
C1_BookedWithinCapacity ==
    \A e \in DOMAIN EVENTS :
        /\ 0 <= EVENTS[e].booked
        /\ EVENTS[e].booked <= EVENTS[e].capacity

\* a counter is full and a further confirm has just been refused
C1_Witness ==
    \E d \in Slots :
        /\ dl[d].pc = "done"
        /\ dl[d].action = "confirm"
        /\ \E n \in 0..DefaultCapacity : OnlyAnswer(d, "no_seats", n)
        /\ Booked(dl[d].booking.nyEventId) = DefaultCapacity

\* C2: confirm deliveries interleaved at every awaited call: neither a stored
\* counter nor a counter that a delivery is about to store exceeds its capacity.
C2_NoOvershootWhenInterleaved ==
    /\ \A e \in DOMAIN EVENTS : EVENTS[e].booked <= EVENTS[e].capacity
    /\ \A d \in Slots :
        dl[d].pc = "evSave" => CounterToSave(d).booked <= CounterToSave(d).capacity

\* two confirms of two different new bookings of one event have both passed the
\* capacity check and written the counter, and their parties do not fit together
C2_Witness ==
    \E d1, d2 \in Slots :
        /\ d1 # d2
        /\ dl[d1].added /\ dl[d2].added
        /\ dl[d1].loaded = "new" /\ dl[d2].loaded = "new"
        /\ dl[d1].booking.serial # dl[d2].booking.serial
        /\ dl[d1].booking.nyEventId = dl[d2].booking.nyEventId
        /\ dl[d1].booking.people + dl[d2].booking.people > DefaultCapacity

\* C3: a confirm that finds the booking already confirmed ends at once: no
\* booking and no counter is written, and its only call is the answer
\* "already confirmed" to the operator.
C3_ConfirmTwiceIsNoOp ==
    [][\A d \in Slots :
          ( /\ dl[d].pc = "getBooking"
            /\ Steps(d)
            /\ dl[d].action = "confirm"
            /\ GetBookingRecord(dl[d].bookingId).status = "confirmed" )
          => /\ BOOKINGS' = BOOKINGS
             /\ EVENTS' = EVENTS
             /\ reserved' = reserved
             /\ dl'[d].pc = "done"
             /\ out'[d] = <<AnswerCallbackQuery("already_confirmed", 0)>>]_vars

\* a second confirm of a confirmed event booking has been answered
C3_Witness ==
    \E d \in Slots :
        /\ dl[d].pc = "done"
        /\ dl[d].action = "confirm"
        /\ dl[d].loaded = "confirmed"
        /\ IsEventBooking(dl[d].booking)
        /\ OnlyAnswer(d, "already_confirmed", 0)

\* C4: once a delivery has loaded a booking whose status is confirmed or
\* cancelled, none of its steps writes a booking or a counter.
C4_TerminalStatus ==
    [][\A d \in Slots :
          (Steps(d) /\ dl[d].loaded \in {"confirmed", "cancelled"})
          => (BOOKINGS' = BOOKINGS /\ EVENTS' = EVENTS)]_vars

\* C5: the seats of a booking are added to its event's counter at most once.
C5_SeatsAddedAtMostOnce == \A s \in Serials : reserved[s] <= 1

\* the counter that the confirm of slot d read
ReadBooked(d) ==
    dl[d].state.booked
        - (IF dl[d].added THEN BookingPeople(dl[d].booking.people) ELSE 0)

\* slot d has finished the confirm of a new event booking
ConfirmedNewEventBooking(d) ==
    /\ dl[d].pc = "done"
    /\ dl[d].action = "confirm"
    /\ dl[d].loaded = "new"
    /\ IsEventBooking(dl[d].booking)

\* the confirm of slot d was refused for lack of seats and changed nothing
RefusedForSeats(d) ==
    LET free == DefaultCapacity - ReadBooked(d) IN
    /\ OnlyAnswer(d, "no_seats", IF free < 0 THEN 0 ELSE free)
    /\ BOOKINGS[dl[d].bookingId].status = "new"
    /\ Booked(dl[d].booking.nyEventId) = ReadBooked(d)
    /\ ~dl[d].added

\* the confirm of slot d went through and raised the counter by the party
WentThrough(d) ==
    /\ BOOKINGS[dl[d].bookingId].status = "confirmed"
    /\ Booked(dl[d].booking.nyEventId) = ReadBooked(d) + dl[d].booking.people
    /\ out[d][Len(out[d])] = AnswerCallbackQuery("confirmed", 0)

\* C6 as stated: a confirm of a new event booking is refused, with the free
\* seats in the notice and nothing changed, when booked + people > capacity, and
\* goes through, raising booked by people, in every other case.
C6_AsStated ==
    \A d \in Slots :
        ConfirmedNewEventBooking(d) =>
            IF ReadBooked(d) + dl[d].booking.people > DefaultCapacity
            THEN RefusedForSeats(d)
            ELSE WentThrough(d)

\* C6 amended: as stated, but only parties of at least 1 go through.
C6_CapacityCheck ==
    \A d \in Slots :
        ConfirmedNewEventBooking(d) =>
            IF ReadBooked(d) + dl[d].booking.people > DefaultCapacity
            THEN RefusedForSeats(d)
            ELSE (dl[d].booking.people >= 1 => WentThrough(d))

\* an event is full and a confirm for it has been refused with "0 free"
C6_Witness ==
    \E d \in Slots :
        /\ ConfirmedNewEventBooking(d)
        /\ OnlyAnswer(d, "no_seats", 0)
        /\ Booked(dl[d].booking.nyEventId) = DefaultCapacity

\* C7: no step of a cancel delivery writes or creates a counter, and the cancel
\* of a new booking stores the status cancelled.
C7_CancelLeavesCounters ==
    [][\A d \in Slots :
          (Steps(d) /\ (dl[d].action = "cancel" \/ dl'[d].action = "cancel"))
          => /\ EVENTS' = EVENTS
             /\ reserved' = reserved
             /\ (dl[d].pc = "saveBooking" /\ dl[d].loaded = "new")
                    => /\ dl[d].bookingId \in DOMAIN BOOKINGS'
                       /\ BOOKINGS'[dl[d].bookingId].status = "cancelled"]_vars

\* a new event booking has been cancelled while its event has no counter yet
C7_Witness ==
    \E d \in Slots :
        /\ dl[d].pc = "done"
        /\ dl[d].action = "cancel"
        /\ dl[d].loaded = "new"
        /\ IsEventBooking(dl[d].booking)
        /\ BOOKINGS[dl[d].bookingId].status = "cancelled"
        /\ dl[d].booking.nyEventId \notin DOMAIN EVENTS

\* C8: whenever a stored event booking is confirmed, its seats have been added
\* to the counter before, also when a delivery stopped between the two writes.
C8_ReservedBeforeConfirmed ==
    \A id \in DOMAIN BOOKINGS :
        (IsEventBooking(BOOKINGS[id]) /\ BOOKINGS[id].status = "confirmed")
            => reserved[BOOKINGS[id].serial] >= 1

\* a delivery stopped after the counter write: the seats are counted, the
\* booking is still new and nothing is in progress
C8_Witness ==
    /\ Quiescent
    /\ \E id \in DOMAIN BOOKINGS :
        /\ IsEventBooking(BOOKINGS[id])
        /\ BOOKINGS[id].status = "new"
        /\ reserved[BOOKINGS[id].serial] = 1
        /\ Booked(BOOKINGS[id].nyEventId) = BOOKINGS[id].people

\* C9: two interleaved confirms of the same new event booking: the second does
\* not add the seats on top of the first, and only one notifies the requester.
C9_DoubleTapReservesOnce ==
    \A d1, d2 \in Slots :
        ( /\ d1 # d2
          /\ dl[d1].action = "confirm" /\ dl[d2].action = "confirm"
          /\ dl[d1].loaded = "new" /\ dl[d2].loaded = "new"
          /\ IsEventBooking(dl[d1].booking)
          /\ dl[d1].booking.serial = dl[d2].booking.serial )
        => /\ ~( /\ dl[d1].added /\ dl[d2].added
                 /\ dl[d2].state.booked
                        = dl[d1].state.booked + dl[d2].booking.people )
           /\ ~(RequesterCalls(d1) # {} /\ RequesterCalls(d2) # {})

\* C10: a callback from an identity that is not the configured operator is
\* answered "permission denied" and nothing else happens: no booking and no
\* counter is written, no message is sent or edited.
C10_UnauthorizedIsDenied ==
    [][\A d \in Slots :
          ( /\ dl[d].pc = "idle"
            /\ Steps(d)
            /\ UserIdString(dl'[d].fromId) # adminUserId )
          => /\ BOOKINGS' = BOOKINGS
             /\ EVENTS' = EVENTS
             /\ reserved' = reserved
             /\ dl'[d].pc = "done"
             /\ out'[d] = <<AnswerCallbackQuery("denied", 0)>>]_vars

\* the requester's own tap on a pending booking has been denied
C10_Witness ==
    \E d \in Slots :
        /\ dl[d].pc = "done"
        /\ adminUserId = UserIdString(OperatorId)
        /\ dl[d].fromId = RequesterId
        /\ OnlyAnswer(d, "denied", 0)
        /\ \E id \in DOMAIN BOOKINGS : BOOKINGS[id].status = "new"

\* ------------------------------------------------------------ flow properties
\* a message delivery has ended
Delivered == md.pc = "done"

\* the session the store held when the delivery began, {} when it held none
SessionBefore ==
    IF md.chatId \in DOMAIN md.before.S THEN md.before.S[md.chatId]
    ELSE EmptySession

\* the delivery found a session at this step whose expiry had not passed
LiveBefore(step) ==
    /\ Delivered
    /\ SessionBefore.step = step
    /\ SessionBefore.expiresAt >= md.at

\* the delivery found a session whose expiry had passed
ExpiredBefore ==
    /\ Delivered
    /\ md.chatId \in DOMAIN md.before.S
    /\ SessionBefore.expiresAt < md.at

\* the requester has no session
NoSession == md.chatId \notin DOMAIN STATE_KV

\* the texts of the messages the delivery sent to the requester
Sent ==
    [i \in 1..Len(SelectSeq(md.calls, LAMBDA c : c.to = md.chatId)) |->
        SelectSeq(md.calls, LAMBDA c : c.to = md.chatId)[i].text]

\* the booking ids whose stored record the delivery wrote
WrittenBookings ==
    { id \in DOMAIN BOOKINGS :
        id \notin DOMAIN md.before.B \/ BOOKINGS[id] # md.before.B[id] }

\* the delivery completed a call of this kind
Did(kind) == \E i \in 1..Len(md.ops) : md.ops[i] = kind

\* C11: a live session at the contact step of the excursion flow and a valid
\* contact: exactly one booking is written, of type excursion, status new, no
\* event id, with the session's name, date, time and people and the contact,
\* and the requester has no session afterwards.
C11_ExcursionFlowEmitsOneBooking ==
    (LiveBefore("ex_contact") /\ ContactAccepted(Trim(md.text))) =>
        /\ \E id \in DOMAIN BOOKINGS :
              /\ WrittenBookings = {id}
              /\ BOOKINGS[id].type = "excursion"
              /\ BOOKINGS[id].status = "new"
              /\ BOOKINGS[id].nyEventId = NULL
              /\ BOOKINGS[id].chatId = md.chatId
              /\ BOOKINGS[id].data.name = SessionBefore.name
              /\ BOOKINGS[id].data.date = SessionBefore.date
              /\ BOOKINGS[id].data.time = SessionBefore.time
              /\ BOOKINGS[id].data.people = SessionBefore.people
              /\ BOOKINGS[id].data.contact = Trim(md.text)
        /\ NoSession
        /\ Len(SelectSeq(md.ops, LAMBDA o : o = "bookingPut")) = 1

\* the excursion flow has been completed with the answers Ann, 03.01, 11:30,
\* the 6-10 button and a phone number
C11_Witness ==
    /\ LiveBefore("ex_contact")
    /\ IsValidPhone(md.text)
    /\ SessionBefore.name = <<"Ann">>
    /\ SessionBefore.date = <<"03.01">>
    /\ SessionBefore.time = <<"11:30">>
    /\ SessionBefore.people = <<"6", "-", "1", "0">>
    /\ WrittenBookings # {}
    /\ NoSession

\* the counter of event e, as stored when the delivery began, was full
FullBefore(e) ==
    /\ e \in DOMAIN md.before.E
    /\ md.before.E[e].booked >= md.before.E[e].capacity

\* C12: a live session at choose-event and the label of an event whose counter
\* is full: the session is deleted, no session is written, no booking and no
\* counter is written, and the only message is the fully-booked notice.
C12_FullEventAbortsFlow ==
    \A ev \in winterEvents :
        (LiveBefore("ny_choose") /\ md.text = <<ev.label>> /\ FullBefore(ev.id)) =>
            /\ NoSession
            /\ Did("stateDelete")
            /\ ~Did("statePut")
            /\ ~Did("bookingPut")
            /\ BOOKINGS = md.before.B
            /\ EVENTS = md.before.E
            /\ Sent = <<"sold_out">>

\* the requester opened the event menu and chose the sold-out ny-03
C12_Witness ==
    /\ LiveBefore("ny_choose")
    /\ md.text = <<"label:ny-03">>
    /\ FullBefore("ny-03")
    /\ md.before.E["ny-03"].booked = DefaultCapacity
    /\ Sent = <<"sold_out">>
    /\ NoSession

\* what a delivery that finds no session does with a text that opens no flow
IdleOutcome(notice) ==
    /\ NoSession
    /\ Sent = <<notice>>

\* C13: a delivery that finds a session whose expiry has passed deletes it, does
\* not run its step (no answer is stored, no booking is written), and handles
\* the message as with no session: an answer gets the generic acknowledgment, a
\* trigger does what it does with no session, and a session that a flow entry
\* opens holds none of the expired answers.
C13_ExpiredSessionIsAbsent ==
    ExpiredBefore =>
        /\ Len(md.ops) >= 2 /\ md.ops[2] = "stateDelete"
        /\ ~Did("bookingPut")
        /\ BOOKINGS = md.before.B
        /\ md.text \in AnswersAt(SessionBefore.step) => IdleOutcome("fallback")
        /\ md.text = ResetText => IdleOutcome("reset_done")
        /\ md.text = MainMenuText => IdleOutcome("welcome")
        /\ ~NoSession =>
              /\ STATE_KV[md.chatId].step \in {"ex_name", "ny_choose", "ny_name"}
              /\ STATE_KV[md.chatId].name = <<>>
              /\ STATE_KV[md.chatId].date = <<>>
              /\ STATE_KV[md.chatId].time = <<>>
              /\ STATE_KV[md.chatId].people = <<>>
              /\ STATE_KV[md.chatId].expiresAt = md.at + SessionTimeout

\* a valid contact arrives a millisecond after the expiry of a session at the
\* contact step, and gets the generic acknowledgment
C13_Witness ==
    /\ ExpiredBefore
    /\ SessionBefore.step \in {"ex_contact", "ny_contact"}
    /\ md.at = SessionBefore.expiresAt + 1
    /\ ContactAccepted(md.text)
    /\ Sent = <<"fallback">>
    /\ NoSession

\* C14: a booking creation never takes the id of a stored booking: the record
\* it writes is stored under an id that was free when the delivery began.
C14_CreationNeverOverwrites ==
    (Delivered /\ Did("bookingPut")) =>
        \A id \in WrittenBookings : id \notin DOMAIN md.before.B

\* the claim's acceptance rule for a contact: a handle, or phone-like with 10 to
\* 15 digits
ClaimedContactOk(text) ==
    \/ /\ Len(text) \in 5..33
       /\ text[1] = "@"
       /\ \A i \in 2..Len(text) : IsWordChar(text[i])
    \/ /\ Len(text) >= 1
       /\ \A i \in 1..Len(text) : IsPhoneChar(text[i])
       /\ Len(SelectSeq(text, IsDigit)) \in 10..15

\* the delivery left the session as it found it
SessionKept ==
    /\ ~NoSession
    /\ STATE_KV[md.chatId] = SessionBefore

\* C15: at the contact step of either flow the input is accepted (a booking is
\* written) if and only if it is a handle or phone-like; any other input writes
\* no booking, leaves the session on the contact step, and re-prompts.
C15_ContactIsValidated ==
    \A step \in {"ex_contact", "ny_contact"} :
        LiveBefore(step) /\ md.text \in ContactTexts =>
            IF ClaimedContactOk(md.text)
            THEN Did("bookingPut") /\ NoSession
            ELSE /\ ~Did("bookingPut")
                 /\ BOOKINGS = md.before.B
                 /\ ~NoSession
                 /\ STATE_KV[md.chatId].step = step
                 /\ Len(Sent) >= 1
                 /\ Sent[Len(Sent)] = "ask_contact"

\* C16: at the people step of the excursion flow a button label is stored in its
\* canonical form and the flow moves to the contact step; any other text is
\* rejected with a re-prompt, the session stays on the people step and no people
\* value is stored.
C16_PeopleButtonsOnly ==
    LiveBefore("ex_people") /\ md.text \in ExPeopleAnswers =>
        IF md.text \in ExPeopleAllowed
        THEN /\ ~NoSession
             /\ STATE_KV[md.chatId].step = "ex_contact"
             /\ STATE_KV[md.chatId].people =
                    (IF md.text = SixToTen THEN <<"6", "-", "1", "0">>
                     ELSE IF md.text = MoreThan11 THEN <<"1", "1", "+">>
                     ELSE md.text)
        ELSE /\ ~NoSession
             /\ STATE_KV[md.chatId].step = "ex_people"
             /\ STATE_KV[md.chatId].people = <<>>
             /\ Sent = <<"use_people_buttons">>

\* C17: after a reset or main-menu message the requester has no session, in
\* whatever state the delivery found the session; no answer is stored and no
\* booking or counter is written.
C17_TriggersOverrideSteps ==
    (Delivered /\ md.text \in {ResetText, MainMenuText}) =>
        /\ NoSession
        /\ ~Did("statePut")
        /\ ~Did("bookingPut")
        /\ BOOKINGS = md.before.B
        /\ EVENTS = md.before.E
        /\ Sent = <<IF md.text = ResetText THEN "reset_done" ELSE "welcome">>

\* the main-menu button was pressed at the last step of the event flow and the
\* reset button at the last step of the excursion flow
C17_Witness ==
    /\ NoSession
    /\ \/ LiveBefore("ny_contact") /\ md.text = MainMenuText
       \/ LiveBefore("ex_contact") /\ md.text = ResetText /\ build = 1

\* the session that naming event ev leaves: the name step with the event's id,
\* title and date, no answers, and the expiry one idle timeout ahead
EventSession(ev) ==
    [EmptySession EXCEPT !.step = "ny_name", !.nyEventId = ev.id,
                         !.nyEventTitle = ev.title, !.nyEventDate = ev.date,
                         !.expiresAt = md.at + SessionTimeout]

\* the outcome of naming event ev: no session and the fully-booked notice when
\* its counter is full, the name step of the event flow when it is not
NamedEvent(ev) ==
    IF FullBefore(ev.id)
    THEN NoSession /\ Sent = <<"sold_out">>
    ELSE /\ ~NoSession
         /\ STATE_KV[md.chatId] = EventSession(ev)
         /\ Sent = <<"chosen">>

\* the outcome of the plain main-menu trigger
AsMainMenu == NoSession /\ Sent = <<"welcome">> /\ ~Did("statePut")

\* the start parameters that name a catalog event
IsEventParam(param) == \E ev \in winterEvents : ev.id = param

\* a start message, and an event label at choose-event, end in the same outcome
StartEqualsChoose ==
    \A ev \in winterEvents :
        /\ (Delivered /\ md.text = StartText(ev.id)) => NamedEvent(ev)
        /\ (LiveBefore("ny_choose") /\ md.text = <<ev.label>>) => NamedEvent(ev)

\* C18 as stated (capacity-aware worker): a start message with the id of a
\* catalog event ends as the choice of that event's label at choose-event does,
\* and a start message with any other parameter ends as the main-menu trigger.
C18_AsStated ==
    build = 2 =>
        /\ StartEqualsChoose
        /\ \A param \in {"", "ny-menu", "ny-99"} :
              (Delivered /\ md.text = StartText(param) /\ ~IsEventParam(param))
                  => AsMainMenu

\* C18 amended: as stated, but the parameter ny-menu opens the event menu: the
\* session is at choose-event with no answers.
C18_StartParameter ==
    build = 2 =>
        /\ StartEqualsChoose
        /\ \A param \in {"", "ny-99"} :
              (Delivered /\ md.text = StartText(param)) => AsMainMenu
        /\ (Delivered /\ md.text = StartText("ny-menu")) =>
              /\ ~NoSession
              /\ STATE_KV[md.chatId] =
                    [EmptySession EXCEPT !.step = "ny_choose",
                                         !.expiresAt = md.at + SessionTimeout]
              /\ Sent = <<"ny_menu">>

\* a start message named ny-03 while it had seats, and the requester is at the
\* name step of the event flow for ny-03
C18_Witness ==
    /\ Delivered
    /\ build = 2
    /\ md.text = StartText("ny-03")
    /\ ~FullBefore("ny-03")
    /\ ~NoSession
    /\ STATE_KV[md.chatId].step = "ny_name"
    /\ STATE_KV[md.chatId].nyEventId = "ny-03"

\* the delivery found a live session at a step that checks its input, and the
\* step rejected the text
Rejected ==
    /\ md.text \notin TriggerTexts
    /\ \/ build = 1 /\ LiveBefore("ex_people") /\ md.text \notin ExPeopleAllowed
       \/ build = 1 /\ LiveBefore("ex_contact") /\ ~ClaimedContactOk(Trim(md.text))
       \/ build = 2 /\ LiveBefore("ny_choose") /\ EventByLabel(md.text) = {}

\* C19: when a step rejects its input the session keeps its step and answers
\* and is written back with the expiry one idle timeout after the delivery.
C19_RejectionRefreshesExpiry ==
    Rejected =>
        /\ ~NoSession
        /\ STATE_KV[md.chatId] =
              [SessionBefore EXCEPT !.expiresAt = md.at + SessionTimeout]
        /\ Did("statePut")

\* C20: every message delivery is answered with success, whichever of the
\* handler's store and Telegram calls throws.
C20_DeliveryAnswersSuccess ==
    Delivered => md.response = "OK"

\* the delivery wrote a booking and then a Telegram call of it threw: the
\* fetch to Telegram was rejected for the operator's notification or for the
\* thanks to the requester
CompletionNoticeThrew ==
    /\ Delivered
    /\ Did("bookingPut")
    /\ md.threw = "send"

\* C21: at flow completion, when the operator's notification or the thanks to
\* the requester fails, the session is cleared all the same.
C21_FailedNoticeStillClears ==
    CompletionNoticeThrew => NoSession

\* slot d takes the delivery of a callback of the events keyboard
QueryStep(d) ==
    /\ dl[d].pc = "idle"
    /\ Steps(d)
    /\ dl'[d].action = "other"
    /\ build = 2
    /\ IsAdminUserId(dl'[d].fromId)
    /\ dl'[d].data \in {<<"events", "all">>, <<"events", "ny-03">>,
                        <<"events", "ny-04">>}

\* C22 as stated: a summary or roster query leaves every booking record and the
\* whole counter store as they were, also for an event with no counter yet.
C22_AsStated ==
    [][\A d \in Slots :
          QueryStep(d) => (BOOKINGS' = BOOKINGS /\ EVENTS' = EVENTS)]_vars

\* C22 amended: a summary or roster query leaves every booking record and every
\* counter that exists as they were; for an event that has no counter yet the
\* query may store one, with the default capacity and booked = 0, which is
\* what every reader takes a missing counter to be.
C22_QueriesKeepValues ==
    [][\A d \in Slots :
          QueryStep(d) =>
              /\ BOOKINGS' = BOOKINGS
              /\ DOMAIN EVENTS \subseteq DOMAIN EVENTS'
              /\ \A e \in DOMAIN EVENTS : EVENTS'[e] = EVENTS[e]
              /\ \A e \in (DOMAIN EVENTS') \ (DOMAIN EVENTS) :
                    EVENTS'[e] = [capacity |-> DefaultCapacity, booked |-> 0]
              /\ out'[d][Len(out'[d])].method = "answerCallbackQuery"]_vars

\* the summary has been sent while ny-03 had seats taken and a request of it
\* was stored: its counter kept booked, and ny-04 has a counter with booked = 0
C22_Witness ==
    \E d \in Slots :
        /\ dl[d].pc = "done"
        /\ dl[d].action = "other"
        /\ dl[d].data = <<"events", "all">>
        /\ out[d] = <<Call("sendMessage", OperatorId, "summary", 0),
                      AnswerCallbackQuery("summary_sent", 0)>>
        /\ Booked("ny-03") > 0
        /\ \E id \in DOMAIN BOOKINGS : BOOKINGS[id].status = "confirmed"
        /\ "ny-04" \in DOMAIN EVENTS

\* C23: message deliveries of one requester that run at the same time, the
\* session being at the contact step: createBooking is called at most once and
\* at most one request is stored for the flow.
C23_DoubleTapOneBooking ==
    /\ created <= 1
    /\ Cardinality(DOMAIN BOOKINGS) <= 1

\* C24: a message delivery leaves every booking that was stored when it began
\* in the store and as it was (it only adds records).
C24_MessagesKeepBookings ==
    Delivered =>
        \A id \in DOMAIN md.before.B :
            /\ id \in DOMAIN BOOKINGS
            /\ BOOKINGS[id] = md.before.B[id]

\* callback data that is no confirm, no cancel and no events query
Unrecognised(data) ==
    data = <<>> \/ Head(data) \notin {"confirm", "cancel", "events"}

\* C25: the delivery of a callback of the operator whose data is not recognised
\* writes no booking, no counter and no session, and its only call is the
\* answer "unknown command".
C25_UnknownActionNoChange ==
    [][\A d \in Slots :
          ( /\ dl[d].pc = "idle"
            /\ Steps(d)
            /\ dl'[d].action = "other"
            /\ IsAdminUserId(dl'[d].fromId)
            /\ Unrecognised(dl'[d].data) )
          => /\ BOOKINGS' = BOOKINGS
             /\ EVENTS' = EVENTS
             /\ STATE_KV' = STATE_KV
             /\ dl'[d].pc = "done"
             /\ out'[d] = <<AnswerCallbackQuery("unknown_command", 0)>>]_vars

\* the operator's callback with unknown data has been answered while a request
\* waits for a decision and no counter is stored
C25_Witness ==
    \E d \in Slots :
        /\ dl[d].pc = "done"
        /\ dl[d].action = "other"
        /\ dl[d].fromId = OperatorId
        /\ dl[d].data = <<"noop", "1">>
        /\ OnlyAnswer(d, "unknown_command", 0)
        /\ \E id \in DOMAIN BOOKINGS : BOOKINGS[id].status = "new"
        /\ EVENTS = EmptyKV

\* the requester has a session that the next delivery would continue
HasLiveSession == LiveSession(RequesterId).step # NULL

\* the texts that open a flow
EntryTexts ==
    { ExEntryText, NyEntryText, StartText("ny-menu") }
        \cup { StartText(ev.id) : ev \in winterEvents }

\* the delivery left a session with no answers at the step its trigger opens
FreshSession ==
    /\ ~NoSession
    /\ md.text \in EntryTexts
    /\ \E ev \in winterEvents :
          \/ /\ md.text = ExEntryText
             /\ STATE_KV[md.chatId] =
                   [EmptySession EXCEPT !.step = "ex_name",
                                        !.expiresAt = md.at + SessionTimeout]
          \/ /\ md.text \in {NyEntryText, StartText("ny-menu")}
             /\ STATE_KV[md.chatId] =
                   [EmptySession EXCEPT !.step = "ny_choose",
                                        !.expiresAt = md.at + SessionTimeout]
          \/ /\ md.text = StartText(ev.id)
             /\ STATE_KV[md.chatId] = EventSession(ev)

\* a delivery that finds no session continues no flow: it writes no booking,
\* and the session it leaves, if any, is the fresh one of an entry trigger
NoResume ==
    (Delivered /\ md.chatId \notin DOMAIN md.before.S) =>
        /\ ~Did("bookingPut")
        /\ NoSession \/ FreshSession

\* C26: a requester who has a live session eventually has none (the flow is
\* completed, left by a trigger, or its session expires), a completed flow
\* leaves no session, and with no session only an entry trigger starts one,
\* fresh and at the first step.
C26_NoStuckConversation ==
    /\ HasLiveSession ~> ~HasLiveSession
    /\ [](Delivered /\ Did("bookingPut") => NoSession)
    /\ []NoResume

\* the requester has completed a flow and started a new one with the entry
\* button: the new session is at the first step and holds no answer
C26_Witness ==
    /\ Delivered
    /\ \E id \in DOMAIN BOOKINGS : BOOKINGS[id].chatId = RequesterId
    /\ md.chatId \notin DOMAIN md.before.S
    /\ md.text = ExEntryText
    /\ FreshSession
    /\ HasLiveSession

\* the fixed order of the two flows: the step after each step but the last
NextStep(step) ==
    IF step = "ex_name" THEN "ex_date"
    ELSE IF step = "ex_date" THEN "ex_time"
    ELSE IF step = "ex_time" THEN "ex_people"
    ELSE IF step = "ex_people" THEN "ex_contact"
    ELSE IF step = "ny_choose" THEN "ny_name"
    ELSE IF step = "ny_name" THEN "ny_people"
    ELSE IF step = "ny_people" THEN "ny_contact"
    ELSE NULL

\* the session with the answer under the field of its step
WithAnswer(session, text) ==
    IF session.step \in {"ex_name", "ny_name"} THEN [session EXCEPT !.name = text]
    ELSE IF session.step = "ex_date" THEN [session EXCEPT !.date = text]
    ELSE IF session.step = "ex_time" THEN [session EXCEPT !.time = text]
    ELSE IF session.step = "ex_people"
    THEN [session EXCEPT !.people = IF build = 1 THEN ExPeopleStored(text) ELSE text]
    ELSE IF session.step = "ny_people" THEN [session EXCEPT !.people = text]
    ELSE IF session.step = "ny_choose"
    THEN LET ev == CHOOSE e \in winterEvents : <<e.label>> = text IN
         [session EXCEPT !.nyEventId = ev.id, !.nyEventTitle = ev.title,
                         !.nyEventDate = ev.date]
    ELSE session

\* the delivery found a live session at a step before the contact and the step
\* took the text as its answer
AcceptedAt(step) ==
    /\ LiveBefore(step)
    /\ md.text \in AnswersAt(step)
    /\ ~Rejected
    /\ step = "ny_choose" =>
          \A ev \in winterEvents : md.text = <<ev.label>> => ~FullBefore(ev.id)

\* C27: an accepted input stores the answer under the field of its step, moves
\* the session to the next step of the same flow and sets expiresAt to the time
\* of the delivery plus the idle timeout; and whenever a delivery leaves a
\* session, its step is the one before, the next one, or the first step of a
\* flow that an entry trigger has just opened.
C27_OneStepPerInput ==
    /\ \A step \in {"ex_name", "ex_date", "ex_time", "ex_people",
                     "ny_choose", "ny_name", "ny_people"} :
          AcceptedAt(step) =>
              /\ ~NoSession
              /\ STATE_KV[md.chatId] =
                    [WithAnswer(SessionBefore, md.text)
                        EXCEPT !.step = NextStep(step),
                               !.expiresAt = md.at + SessionTimeout]
    /\ (Delivered /\ ~NoSession) =>
          \/ STATE_KV[md.chatId] = SessionBefore
          \/ /\ AcceptedAt(SessionBefore.step)
             /\ STATE_KV[md.chatId].step = NextStep(SessionBefore.step)
          \/ FreshSession

\* the guest count was answered an idle timeout after the name: the session is
\* at the contact step with the count stored and the expiry moved on
C27_Witness ==
    /\ AcceptedAt("ny_people")
    /\ md.at = SessionTimeout
    /\ SessionBefore.expiresAt = SessionTimeout
    /\ STATE_KV[md.chatId].step = "ny_contact"
    /\ STATE_KV[md.chatId].people = md.text
    /\ STATE_KV[md.chatId].expiresAt = 2 * SessionTimeout

\* slot d runs the confirm of a new event booking whose party is 0 or less
ConfirmsBadParty(d) ==
    /\ dl[d].action = "confirm"
    /\ dl[d].loaded = "new"
    /\ IsEventBooking(dl[d].booking)
    /\ dl[d].booking.people <= 0

\* C28: no step of the confirm of a new event booking whose party is 0 or less
\* writes a booking or changes booked of any event, and the delivery ends with
\* the answer "bad guest count" to the operator as its only call.
C28_BadPartyRejected ==
    [][\A d \in Slots :
          (Steps(d) /\ ConfirmsBadParty(d)) =>
              /\ BOOKINGS' = BOOKINGS
              /\ reserved' = reserved
              /\ \A e \in DOMAIN EVENTS :
                    e \in DOMAIN EVENTS' /\ EVENTS'[e] = EVENTS[e]
              /\ \A e \in (DOMAIN EVENTS') \ (DOMAIN EVENTS) :
                    EVENTS'[e].booked = 0
              /\ dl'[d].pc \in {"evCreate", "done", "idle"}
              /\ dl'[d].pc = "done" =>
                    out'[d] = <<AnswerCallbackQuery("bad_people", 0)>>]_vars

\* the confirm of a request whose guest count did not parse has been refused:
\* the booking is new, nothing is counted and the requester was not notified
C28_Witness ==
    \E d \in Slots :
        /\ dl[d].pc = "done"
        /\ ConfirmsBadParty(d)
        /\ dl[d].booking.people = 0
        /\ OnlyAnswer(d, "bad_people", 0)
        /\ BOOKINGS[dl[d].bookingId].status = "new"
        /\ Booked(dl[d].booking.nyEventId) = 0
        /\ RequesterCalls(d) = {}

\* the counter that the confirm of slot d goes on with, given that getEventState
\* returned state: the party is added to it when the confirm is not refused
GoesOnWith(d, state) ==
    dl'[d].pc \notin {"done", "evCreate"} =>
        dl'[d].state =
            [state EXCEPT !.booked = @ + BookingPeople(dl[d].booking.people)]

\* C29: getEventState for an event that has a counter stores nothing and
\* returns the stored capacity and booked; for an event that has none it
\* stores and returns a counter with the fixed capacity and booked = 0, and no
\* other counter changes.
C29_LazyCounter ==
    [][\A d \in Slots :
          LET key == dl[d].booking.nyEventId IN
          /\ (Steps(d) /\ dl[d].pc = "evGet") =>
                /\ EVENTS' = EVENTS
                /\ key \in DOMAIN EVENTS => GoesOnWith(d, EVENTS[key])
                /\ key \notin DOMAIN EVENTS => dl'[d].pc = "evCreate"
          /\ (Steps(d) /\ dl[d].pc = "evCreate") =>
                /\ key \notin DOMAIN EVENTS
                /\ DOMAIN EVENTS' = DOMAIN EVENTS \cup {key}
                /\ EVENTS'[key].capacity = DefaultCapacity
                /\ EVENTS'[key].booked = 0
                /\ \A e \in DOMAIN EVENTS : EVENTS'[e] = EVENTS[e]
                /\ GoesOnWith(d, EVENTS'[key])]_vars

\* a confirm has read the counter of ny-03, which had 20 seats taken, as it was
\* stored, while the counter of ny-04 exists only because a query read it
C29_Witness ==
    \E d \in Slots :
        /\ dl[d].pc = "evSave"
        /\ dl[d].booking.nyEventId = "ny-03"
        /\ dl[d].booking.people = 20
        /\ "ny-03" \in DOMAIN EVENTS /\ "ny-04" \in DOMAIN EVENTS
        /\ EVENTS["ny-03"] = [capacity |-> DefaultCapacity, booked |-> 20]
        /\ dl[d].state = [capacity |-> DefaultCapacity, booked |-> 40]
        /\ EVENTS["ny-04"] = [capacity |-> DefaultCapacity, booked |-> 0]

\* the stored bookings of event e whose status is confirmed
ConfirmedOf(e) ==
    { id \in DOMAIN BOOKINGS :
        /\ IsEventBooking(BOOKINGS[id])
        /\ BOOKINGS[id].nyEventId = e
        /\ BOOKINGS[id].status = "confirmed" }

RECURSIVE SumPeople(_)
\* the sum of the party sizes of the bookings ids
SumPeople(ids) ==
    IF ids = {} THEN 0
    ELSE LET id == CHOOSE x \in ids : TRUE IN
         BOOKINGS[id].people + SumPeople(ids \ {id})

\* C30: whenever no delivery is in progress, booked of every event is the sum
\* of the party sizes of the confirmed bookings of that event.
C30_BookedIsSumOfConfirmed ==
    Quiescent => \A e \in EventIds : Booked(e) = SumPeople(ConfirmedOf(e))

\* the delivery completed the event flow: it found a live session at the
\* contact step of the event flow and wrote a booking
EventFlowCompleted ==
    /\ LiveBefore("ny_contact")
    /\ Did("bookingPut")
    /\ WrittenBookings # {}

\* C31: every booking that the event flow writes has a party of at least 1 and
\* the id of a catalog event, so that its confirm is not refused for its guest
\* count.
C31_EventBookingsConfirmable ==
    EventFlowCompleted =>
        \A id \in WrittenBookings :
            /\ BOOKINGS[id].nyEventId \in EventIds
            /\ ~BadPeople(BookingPeople(BOOKINGS[id].people))

\* the delivery was of an entry button that the worker knows: the excursion
\* entry in both workers, the event-menu entry in the capacity-aware one
EntryPressed ==
    /\ Delivered
    /\ \/ md.text = ExEntryText
       \/ build = 2 /\ md.text = NyEntryText

\* C32: an entry button pressed in any session state is not taken as an answer:
\* the delivery writes no booking and leaves a session with no answers at the
\* first step of the flow that the button names.
C32_EntryNeverAnAnswer ==
    EntryPressed =>
        /\ FreshSession
        /\ ~Did("bookingPut")

\* the step is the delivery of a message that asks for the operator's menu
MenuAsked ==
    /\ md.pc = "idle"
    /\ md'.pc = "done"
    /\ md'.text \in OperatorMenuTexts

====
